---- MODULE Spec2Model ----
(***************************************************************************)
(* Model of src/main.py: a Telegram user-account bridge.  A command posted *)
(* in the source group (SOURCE_GROUP_A) is re-sent to the target group     *)
(* (TARGET_GROUP_B); after WAIT_SECONDS the bridge fetches the recent      *)
(* history of the target group, takes the first fetched message that       *)
(* replies to the command it sent, and relays it to the source group as a  *)
(* reply to the original command.                                          *)
(*                                                                         *)
(* Texts are finite sequences of text units.  A unit is the prefix         *)
(* character "/", a whitespace character " ", or a run of characters that  *)
(* holds neither ("num", "NUM", "2", ...); the text "/num 2" is            *)
(* <<"/", "num", " ", "2">>.  No unit is a prefix of another, so distinct  *)
(* sequences stand for distinct strings.                                   *)
(***************************************************************************)
EXTENDS Integers, Sequences, FiniteSets, TLC

\* ----------------------------------------------------------------- bounds
\* Handler invocations (inbound messages of the source group) per run.
MaxReq == 2
\* Messages in the target group per run (the bridge's and everybody else's).
MaxTarget == 3
\* Length, in units, of the inbound texts ParseSpec enumerates.
MaxLen == 6
\* get_messages(..., limit=30), scaled down so that a run can post more
\* messages than one fetch returns.
HistoryLimit == 2

\* ------------------------------------------------------------------ texts
PREFIX == "/"
SPACE == " "
Units == {PREFIX, SPACE, "num", "NUM", "2"}

\* The keys of COMMANDS (only membership is ever used).
COMMANDS ==
    { <<"num">>, <<"num", "2">>, <<"aadh">>, <<"rashan">>, <<"upi">>,
      <<"icmr">>, <<"vehicle">>, <<"tguser">>, <<"gst">>, <<"ifsc">> }

\* str.lower(), unit by unit.
LowerUnit(u) == IF u = "NUM" THEN "num" ELSE u
Lower(s) == [i \in 1..Len(s) |-> LowerUnit(s[i])]

\* Number of units equal to c that s starts with (from i) or ends with
\* (down from i).
RECURSIVE LeadingRun(_, _, _)
LeadingRun(s, i, c) ==
    IF i <= Len(s) /\ s[i] = c THEN LeadingRun(s, i + 1, c) ELSE i - 1

RECURSIVE TrailingRun(_, _, _)
TrailingRun(s, i, c) ==
    IF i >= 1 /\ s[i] = c THEN TrailingRun(s, i - 1, c) ELSE Len(s) - i

\* str.lstrip(c): every leading c is removed, not only the first.
LStrip(s, c) == SubSeq(s, LeadingRun(s, 1, c) + 1, Len(s))
RStrip(s, c) == SubSeq(s, 1, Len(s) - TrailingRun(s, Len(s), c))
\* str.strip(): leading and trailing whitespace removed.
Strip(s) == RStrip(LStrip(s, SPACE), SPACE)

StartsWith(s, c) == Len(s) >= 1 /\ s[1] = c

\* Index of the first whitespace unit of s at or after i, Len(s)+1 if none.
RECURSIVE FirstSpace(_, _)
FirstSpace(s, i) ==
    IF i <= Len(s) /\ s[i] # SPACE THEN FirstSpace(s, i + 1) ELSE i

\* str.split(maxsplit=k): split on runs of whitespace, leading whitespace
\* dropped, at most k splits; what is left after the k-th split is one
\* part, its trailing whitespace kept.
RECURSIVE Split(_, _)
Split(s, k) ==
    LET t == LStrip(s, SPACE)
        e == FirstSpace(t, 1)
    IN  IF t = <<>> THEN <<>>
        ELSE IF k = 0 THEN <<t>>
        ELSE <<SubSeq(t, 1, e - 1)>> \o Split(SubSeq(t, e, Len(t)), k - 1)

\* ----------------------------------------------------------------- parser
\* handle_group_a_message, lines 89-104: the text of the event, parsed.
StrippedText(raw) == Strip(raw)
Parts(raw) == Split(StrippedText(raw), 2)
Cmd(raw) == Lower(LStrip(Parts(raw)[1], PREFIX))
IsCommand(raw) ==
    /\ StartsWith(StrippedText(raw), PREFIX)
    /\ Parts(raw) # <<>>
    /\ Cmd(raw) \in COMMANDS
\* Mutant: " ".join(parts[1:]).strip(), the alternative lines 105-106 name.
ValueJoined(raw) ==
    IF Len(Parts(raw)) >= 3 THEN Strip(Parts(raw)[2] \o <<SPACE>> \o Parts(raw)[3])
    ELSE IF Len(Parts(raw)) = 2 THEN Strip(Parts(raw)[2])
    ELSE <<>>
Value(raw) == IF Len(Parts(raw)) >= 2 THEN Strip(Parts(raw)[2]) ELSE <<>>

\* Mutant: the composed text is not stripped.
MsgTextUnstripped(command, value) == <<PREFIX>> \o command \o <<SPACE>> \o value
\* send_to_stark_and_get_reply, line 67: f"/{command} {value}".strip()
MsgText(command, value) == Strip(<<PREFIX>> \o command \o <<SPACE>> \o value)

\* ------------------------------------------------------------------ state
\* The two chats.  Message ids are the positions in a chat's sequence.
SOURCE_GROUP_A == "A"
TARGET_GROUP_B == "B"

\* Inbound texts the source group posts in Spec: a recognised command with
\* a two-token remainder and upper-case keyword, and a text without prefix.
SampleTexts ==
    { <<"/", "NUM", " ", "2", " ", "2">>, <<"num", " ", "2">> }

\* Texts other members post in the target group: a message without text
\* (media), a progress notice, and two answers.
EmptyText == <<>>
NoiseText == <<"please wait,", " ", "extracting", " ", "vehicle", " ", "details">>
FinalText == <<"Name:", " ", "John">>
FinalText2 == <<"Mobile:", " ", "9999999999">>
TargetTexts == {EmptyText, NoiseText, FinalText, FinalText2}

VARIABLES
    mainpc,     \* position of main(): "start", "get_me", "get_entity", "run"
    entity,     \* TARGET_GROUP_ENTITY: "None" until main() resolves it
    source,     \* messages of the source group, oldest first
    target,     \* messages of the target group, oldest first
    reqs        \* one record per invocation of handle_group_a_message

vars == <<mainpc, entity, source, target, reqs>>

\* A message: its id, text, the id it replies to (0: none), and the handler
\* invocation that sent it (0: somebody else).
Msg(id, text, reply_to, req) ==
    [id |-> id, text |-> text, reply_to |-> reply_to, req |-> req]

None == <<>>
Some(x) == <<x>>

Init ==
    /\ mainpc = "start"
    /\ entity = "None"
    /\ source = <<>>
    /\ target = <<>>
    /\ reqs = <<>>

\* ------------------------------------------------------------------ main()
\* `with client:` / client.start(): the client connects; from here on the
\* registered handler receives the source group's messages.
ClientStart ==
    /\ mainpc = "start"
    /\ mainpc' = "get_me"
    /\ UNCHANGED <<entity, source, target, reqs>>

GetMe ==
    /\ mainpc = "get_me"
    /\ mainpc' = "get_entity"
    /\ UNCHANGED <<entity, source, target, reqs>>

GetEntity ==
    /\ mainpc = "get_entity"
    /\ mainpc' = "run"
    /\ entity' = TARGET_GROUP_B
    /\ UNCHANGED <<source, target, reqs>>

\* --------------------------------------------------- handle_group_a_message
\* A message with text raw appears in the source group and the handler runs
\* up to its first await (or returns: "dropped").
Receive(raw) ==
    /\ mainpc # "start"
    /\ LET id == Len(source) + 1
           ok == IsCommand(raw)
       IN  /\ source' = Append(source, Msg(id, raw, 0, 0))
           /\ reqs' = Append(reqs,
                  [ query_msg_id |-> id,
                    query_chat_id |-> SOURCE_GROUP_A,
                    pc |-> IF ok THEN "send" ELSE "dropped",
                    cmd |-> IF ok THEN Cmd(raw) ELSE <<>>,
                    value |-> IF ok THEN Value(raw) ELSE <<>>,
                    sent_id |-> 0,
                    reply |-> None ])
    /\ UNCHANGED <<mainpc, entity, target>>

\* Line 68: client.send_message(TARGET_GROUP_ENTITY, msg_text).  With the
\* entity still None the call raises and the handler ends.
SendToTarget(r) ==
    /\ reqs[r].pc = "send"
    /\ IF entity = "None"
       THEN /\ reqs' = [reqs EXCEPT ![r].pc = "error"]
            /\ UNCHANGED target
       ELSE LET id == Len(target) + 1
            IN  /\ target' = Append(target,
                       Msg(id, MsgText(reqs[r].cmd, reqs[r].value), 0, r))
                /\ reqs' = [reqs EXCEPT ![r].pc = "sleep", ![r].sent_id = id]
    /\ UNCHANGED <<mainpc, entity, source>>

\* Mutant: a failed send is reported to the origin.
SendFailsNotify(r) ==
    /\ reqs[r].pc = "send"
    /\ entity # "None"
    /\ reqs' = [reqs EXCEPT ![r].pc = "error"]
    /\ source' = Append(source, Msg(Len(source) + 1, <<"send", " ", "failed">>,
                                    reqs[r].query_msg_id, r))
    /\ UNCHANGED <<mainpc, entity, target>>
\* Line 68: the transport fails, client.send_message raises.  Nothing in
\* lines 60-133 catches it: the handler ends there, and the client logs
\* the exception of a handler and goes on.
SendFails(r) ==
    /\ reqs[r].pc = "send"
    /\ entity # "None"
    /\ reqs' = [reqs EXCEPT ![r].pc = "error"]
    /\ UNCHANGED <<mainpc, entity, source, target>>

\* Line 72: asyncio.sleep(WAIT_SECONDS) returns.
WakeUp(r) ==
    /\ reqs[r].pc = "sleep"
    /\ reqs' = [reqs EXCEPT ![r].pc = "fetch"]
    /\ UNCHANGED <<mainpc, entity, source, target>>

\* client.get_messages(entity, limit): the newest `limit` messages of the
\* chat, newest first.
GetMessagesOf(chat, limit) ==
    LET n == IF Len(chat) < limit THEN Len(chat) ELSE limit
    IN  [i \in 1..n |-> chat[Len(chat) + 1 - i]]

\* m.text or m.message: both are empty for a message without text.
TextOrMessage(m) == m.text

\* Mutant: the newest fetched message, whatever it replies to.
FindReplyUnthreaded(msgs, sent_id) ==
    IF msgs = <<>> THEN None ELSE Some(TextOrMessage(Head(msgs)))
\* Lines 76-80: the first fetched message whose reply_to_msg_id is sent_id.
RECURSIVE FindReply(_, _)
FindReply(msgs, sent_id) ==
    IF msgs = <<>> THEN None
    ELSE IF Head(msgs).reply_to = sent_id THEN Some(TextOrMessage(Head(msgs)))
    ELSE FindReply(Tail(msgs), sent_id)

\* `if reply:` -- None and the empty text are both false.
Truthy(reply) == reply # None /\ reply[1] # <<>>

\* The text of the notice lines 129-133 would send.
NoticeText == <<"No", " ", "reply", " ", "from", " ", "Stark">>
\* Mutant: lines 129-133 in force, a notice goes to the origin when no
\* reply is found.
GetMessagesNotify(r) ==
    /\ reqs[r].pc = "fetch"
    /\ LET reply == FindReply(GetMessagesOf(target, HistoryLimit), reqs[r].sent_id)
       IN  /\ reqs' = [reqs EXCEPT ![r].reply = reply,
                                   ![r].pc = IF Truthy(reply) THEN "reply" ELSE "timedout"]
           /\ source' = IF Truthy(reply) THEN source
                         ELSE Append(source, Msg(Len(source) + 1, NoticeText,
                                                 reqs[r].query_msg_id, r))
    /\ UNCHANGED <<mainpc, entity, target>>
\* Mutant: the command is sent again when no reply is found.
GetMessagesRetry(r) ==
    /\ reqs[r].pc = "fetch"
    /\ LET reply == FindReply(GetMessagesOf(target, HistoryLimit), reqs[r].sent_id)
       IN  reqs' = [reqs EXCEPT ![r].reply = reply,
                                ![r].pc = IF Truthy(reply) THEN "reply" ELSE "send"]
    /\ UNCHANGED <<mainpc, entity, source, target>>
\* Mutant: the handler polls, sleeping again when no reply is found.
GetMessagesPoll(r) ==
    /\ reqs[r].pc = "fetch"
    /\ LET reply == FindReply(GetMessagesOf(target, HistoryLimit), reqs[r].sent_id)
       IN  reqs' = [reqs EXCEPT ![r].reply = reply,
                                ![r].pc = IF Truthy(reply) THEN "reply" ELSE "sleep"]
    /\ UNCHANGED <<mainpc, entity, source, target>>
\* Mutant: the history is searched again after the handler gave up.
GetMessagesLate(r) ==
    /\ reqs[r].pc \in {"fetch", "timedout"}
    /\ LET reply == FindReply(GetMessagesOf(target, HistoryLimit), reqs[r].sent_id)
       IN  reqs' = [reqs EXCEPT ![r].reply = reply,
                                ![r].pc = IF Truthy(reply) THEN "reply" ELSE "timedout"]
    /\ UNCHANGED <<mainpc, entity, source, target>>
\* Mutant: the history is searched while the handler still sleeps.
GetMessagesEarly(r) ==
    /\ reqs[r].pc \in {"sleep", "fetch"}
    /\ LET reply == FindReply(GetMessagesOf(target, HistoryLimit), reqs[r].sent_id)
       IN  reqs' = [reqs EXCEPT ![r].reply = reply,
                                ![r].pc = IF Truthy(reply) THEN "reply" ELSE "timedout"]
    /\ UNCHANGED <<mainpc, entity, source, target>>
\* Lines 75-80 and 116-118, 127: the history is fetched and searched; the
\* handler goes on to relay the reply, or logs that none was found and
\* returns.
GetMessages(r) ==
    /\ reqs[r].pc = "fetch"
    /\ LET reply == FindReply(GetMessagesOf(target, HistoryLimit), reqs[r].sent_id)
       IN  reqs' = [reqs EXCEPT ![r].reply = reply,
                                ![r].pc = IF Truthy(reply) THEN "reply" ELSE "timedout"]
    /\ UNCHANGED <<mainpc, entity, source, target>>

\* Lines 121-125: client.send_message(entity=query_chat_id, message=reply,
\* reply_to=query_msg_id).  The relayed message is itself a new message of
\* the source group; the texts of TargetTexts do not begin with the prefix,
\* so the handler started for it returns at line 91 and is left out.
SendToOrigin(r) ==
    /\ reqs[r].pc = "reply"
    /\ LET q == reqs[r]
       IN  IF q.query_chat_id = SOURCE_GROUP_A
           THEN /\ source' = Append(source,
                       Msg(Len(source) + 1, q.reply[1], q.query_msg_id, r))
                /\ UNCHANGED target
           ELSE /\ target' = Append(target,
                       Msg(Len(target) + 1, q.reply[1], q.query_msg_id, r))
                /\ UNCHANGED source
    /\ reqs' = [reqs EXCEPT ![r].pc = "resolved"]
    /\ UNCHANGED <<mainpc, entity>>

\* ------------------------------------------------------------ environment
\* Somebody else posts in the target group, possibly as a reply to a
\* message that is already there.  The handlers read the text of a message
\* only when it replies to one of the bridge's own messages, so the other
\* messages all carry one text, an answer.
PostTarget(text, ref) ==
    /\ (ref = 0 \/ target[ref].req = 0) => text = FinalText
    /\ target' = Append(target, Msg(Len(target) + 1, text, ref, 0))
    /\ UNCHANGED <<mainpc, entity, source, reqs>>

\* ---------------------------------------------------------- specifications
Next ==
    \/ ClientStart
    \/ GetMe
    \/ GetEntity
    \/ Len(reqs) < MaxReq /\ \E raw \in SampleTexts : Receive(raw)
    \/ \E r \in 1..Len(reqs) : SendToTarget(r)
    \/ \E r \in 1..Len(reqs) : SendFails(r)
    \/ \E r \in 1..Len(reqs) : WakeUp(r)
    \/ \E r \in 1..Len(reqs) : GetMessages(r)
    \/ \E r \in 1..Len(reqs) : SendToOrigin(r)
    \/ Len(target) < MaxTarget /\
           \E text \in TargetTexts, ref \in 0..Len(target) : PostTarget(text, ref)

Spec == Init /\ [][Next]_vars

\* The event loop runs every handler that can go on: a send returns, the
\* sleep ends, the fetch returns.
HandlerStep(r) ==
    /\ r \in 1..Len(reqs)
    /\ (SendToTarget(r) \/ SendFails(r) \/ WakeUp(r) \/ GetMessages(r)
            \/ SendToOrigin(r))

FairSpec == Spec /\ \A r \in 1..MaxReq : WF_vars(HandlerStep(r))

\* One command in a busy target group: enough messages can follow the
\* dispatch to fill the fetch of line 75 after a reply, and the fetch
\* follows the end of the sleep at once, so every message it can see was
\* posted within the wait.
HistoryRoom == HistoryLimit + 2
HistoryNext ==
    \/ ClientStart
    \/ GetMe
    \/ GetEntity
    \/ reqs = <<>> /\ \E raw \in SampleTexts : Receive(raw)
    \/ \E r \in 1..Len(reqs) : SendToTarget(r)
    \/ \E r \in 1..Len(reqs) : SendFails(r)
    \/ \E r \in 1..Len(reqs) : WakeUp(r)
    \/ \E r \in 1..Len(reqs) : GetMessages(r)
    \/ \E r \in 1..Len(reqs) : SendToOrigin(r)
    \/ /\ Len(target) < HistoryRoom
       /\ \A r \in 1..Len(reqs) : reqs[r].pc # "fetch"
       /\ \E text \in TargetTexts, ref \in 0..Len(target) : PostTarget(text, ref)
HistorySpec == Init /\ [][HistoryNext]_vars

\* The parser and the composition of the outbound text, over every inbound
\* text of at most MaxLen units: one handler invocation, started once main()
\* has resolved the target entity.
AllTexts == UNION { [1..n -> Units] : n \in 0..MaxLen }

ParseInit ==
    /\ mainpc = "run"
    /\ entity = TARGET_GROUP_B
    /\ source = <<>>
    /\ target = <<>>
    /\ reqs = <<>>

ParseNext ==
    \/ reqs = <<>> /\ \E raw \in AllTexts : Receive(raw)
    \/ \E r \in 1..Len(reqs) : SendToTarget(r)

ParseSpec == ParseInit /\ [][ParseNext]_vars

\* ------------------------------------------------------------------ claims
\* The messages the bridge sent for invocation r, in a chat.
SentBy(chat, r) == { i \in 1..Len(chat) : chat[i].req = r }
\* The inbound text invocation r was started for.
RawOf(r) == source[reqs[r].query_msg_id].text
\* Invocation r sent its command to the target group.
Dispatched(r) == reqs[r].pc \in {"sleep", "fetch", "reply", "resolved", "timedout"}

\* Every whitespace-delimited token of s.
Tokens(s) == Split(s, Len(s))
\* The text after the first token of s and the whitespace that follows it.
Remainder(s) ==
    LET t == Strip(s)
    IN  Strip(SubSeq(t, FirstSpace(t, 1), Len(t)))

\* C4 as claimed: the first token with THE prefix (one "/") stripped.
ClaimedKeyword(raw) == Lower(Tail(Tokens(raw)[1]))
ClaimedRecognised(raw) ==
    /\ StartsWith(Strip(raw), PREFIX)
    /\ ClaimedKeyword(raw) \in COMMANDS

\* C4: an invocation goes on to dispatch exactly when its trimmed text begins
\* with "/" and its first token, the prefix stripped and lower-cased, is a
\* key of COMMANDS; otherwise it is dropped and sends nothing to either chat.
C4_DispatchIffRecognised ==
    \A r \in 1..Len(reqs) :
        /\ reqs[r].pc # "dropped" <=> ClaimedRecognised(RawOf(r))
        /\ reqs[r].pc = "dropped" =>
               SentBy(source, r) = {} /\ SentBy(target, r) = {}

\* C5 as claimed: the argument is the whole remainder after the keyword.
C5_ArgumentIsRemainder ==
    \A r \in 1..Len(reqs) :
        reqs[r].pc # "dropped" => reqs[r].value = Remainder(RawOf(r))

\* C5, amended: the argument is the first token after the keyword only (the
\* empty text when there is none); later tokens are discarded.
C5_ArgumentIsFirstToken ==
    \A r \in 1..Len(reqs) :
        reqs[r].pc # "dropped" =>
            LET toks == Tokens(RawOf(r))
            IN  reqs[r].value = IF Len(toks) >= 2 THEN toks[2] ELSE <<>>

\* A dispatched invocation whose remainder holds two tokens and whose
\* argument is the first of them.
C5_Witness ==
    \E r \in 1..Len(reqs) :
        /\ Dispatched(r)
        /\ Len(Tokens(RawOf(r))) >= 3
        /\ reqs[r].value = Tokens(RawOf(r))[2]
        /\ reqs[r].value # Remainder(RawOf(r))

\* C6: the text sent to the target group is "/", the lower-cased keyword (a
\* key of COMMANDS), one space and the argument, no whitespace around it;
\* with an empty argument it is "/" and the keyword alone.
C6_OutboundText ==
    \A r \in 1..Len(reqs) :
        Dispatched(r) =>
            LET toks == Tokens(RawOf(r))
                key == Lower(LStrip(toks[1], PREFIX))
                arg == IF Len(toks) >= 2 THEN toks[2] ELSE <<>>
                out == target[reqs[r].sent_id].text
            IN  /\ key \in COMMANDS
                /\ out = IF arg = <<>> THEN <<PREFIX>> \o key
                         ELSE <<PREFIX>> \o key \o <<SPACE>> \o arg

\* A dispatch with an argument and one without.
C6_Witness ==
    \E r \in 1..Len(reqs) :
        /\ Dispatched(r)
        /\ reqs[r].value = <<>>
        /\ target[reqs[r].sent_id].text = <<PREFIX, "num", "2">>
        /\ RawOf(r) # target[reqs[r].sent_id].text

\* ---------------------------------------------------------------- relaying
\* The target-group messages that reply to message id.
RepliesTo(id) == { j \in 1..Len(target) : target[j].reply_to = id }

\* C1: whatever the bridge sends for invocation r goes to the source group
\* as a reply to r's command, with the text of a target-group message that
\* replies to r's dispatched message; the bridge's only message in the
\* target group for r is that dispatch.
C1_RelayIsThreadedReply ==
    \A r \in 1..Len(reqs) :
        /\ \A i \in SentBy(source, r) :
               /\ source[i].reply_to = reqs[r].query_msg_id
               /\ source[reqs[r].query_msg_id].req = 0
               /\ reqs[r].sent_id # 0
               /\ \E j \in RepliesTo(reqs[r].sent_id) :
                      target[j].req = 0 /\ target[j].text = source[i].text
        /\ \A j \in SentBy(target, r) :
               j = reqs[r].sent_id /\ target[j].reply_to = 0

\* A reply has been relayed for one invocation while another one is in
\* flight and the newest message of the target group is not a reply to the
\* first one's dispatch.
C1_Witness ==
    \E r, q \in 1..Len(reqs) :
        /\ r # q
        /\ SentBy(source, r) # {}
        /\ reqs[q].pc \in {"sleep", "fetch"}
        /\ target[Len(target)].reply_to # reqs[r].sent_id

\* The classifier of the specification, on units: a noise keyword vetoes,
\* otherwise a final-answer hint decides.
NoiseKeywords == {"searching", "processing", "extracting", "please wait,", "database"}
FinalHints == {"{", "Name:", "Mobile:", "vehicle"}
Contains(text, units) == \E i \in 1..Len(text) : text[i] \in units
is_final_reply(text) ==
    /\ ~Contains(text, NoiseKeywords)
    /\ Contains(text, FinalHints)

\* C2: no text that is not a final answer is ever relayed to the origin.
C2_OnlyFinalRelayed ==
    \A r \in 1..Len(reqs) :
        \A i \in SentBy(source, r) : is_final_reply(source[i].text)

C7_SingleDispatchSingleOutcome ==
    \A r \in 1..Len(reqs) :
        /\ Cardinality(SentBy(target, r)) = IF Dispatched(r) THEN 1 ELSE 0
        /\ Cardinality(SentBy(source, r)) = IF reqs[r].pc = "resolved" THEN 1 ELSE 0

\* A resolved invocation whose dispatch has two replies.
C7_Witness ==
    \E r \in 1..Len(reqs) :
        /\ reqs[r].pc = "resolved"
        /\ Cardinality(RepliesTo(reqs[r].sent_id)) >= 2

\* The smallest element of a non-empty set of ids.
Earliest(ids) == CHOOSE j \in ids : \A k \in ids : j <= k

\* C8: when the replies to a dispatch are all answers, the relayed text is
\* that of the earliest of them.
C8_FirstReplyWins ==
    \A r \in 1..Len(reqs) :
        LET replies == RepliesTo(reqs[r].sent_id)
        IN  ( /\ reqs[r].pc = "resolved"
              /\ \A j \in replies : is_final_reply(target[j].text) )
            => \A i \in SentBy(source, r) :
                   source[i].text = target[Earliest(replies)].text

\* C9: no dispatched invocation stays in flight for ever; it leaves only
\* to resolved or to timedout; the two ends are final, and a message went to
\* the origin in the one and not in the other.
InFlight(r) == r \in 1..Len(reqs) /\ reqs[r].pc \in {"sleep", "fetch", "reply"}
Terminal(r) == r \in 1..Len(reqs) /\ reqs[r].pc \in {"resolved", "timedout"}
C9_ExactlyOneOutcome ==
    /\ \A r \in 1..MaxReq : []<>(~InFlight(r))
    /\ [][\A r \in 1..Len(reqs) :
            /\ InFlight(r) => InFlight(r)' \/ Terminal(r)'
            /\ Terminal(r) => reqs'[r].pc = reqs[r].pc
            /\ Cardinality(SentBy(source, r)') =
                   IF reqs'[r].pc = "resolved" THEN 1 ELSE 0]_vars

\* Both ends occur: one invocation resolved, another timed out.
C9_Witness ==
    \E r, q \in 1..Len(reqs) :
        reqs[r].pc = "resolved" /\ reqs[q].pc = "timedout"

\* C10: once an invocation has timed out, nothing of it changes and nothing
\* is sent to the origin for it, whatever is posted in the target group.
C10_LateReplyIgnored ==
    [][\A r \in 1..Len(reqs) :
          reqs[r].pc = "timedout" =>
              /\ reqs'[r] = reqs[r]
              /\ SentBy(source, r)' = SentBy(source, r)]_vars

\* An invocation that found no message replying to its dispatch, and an
\* answer to that dispatch in the target group: with so few messages the
\* fetch would have returned it, so it was posted after the fetch.
C10_Witness ==
    \E r \in 1..Len(reqs) :
        /\ reqs[r].pc = "timedout"
        /\ reqs[r].reply = None
        /\ Len(target) <= HistoryLimit + 1
        /\ \E j \in RepliesTo(reqs[r].sent_id) : target[j].text = FinalText

\* C11: an invocation whose send to the target group raised is abandoned:
\* nothing of it is in the target group (the send is not repeated) or in
\* the source group, no step of it is left to take, and the step in which
\* the send fails leaves the other invocations, the two groups and the
\* client as they were.
Failed(r) == r \in 1..Len(reqs) /\ reqs[r].pc = "error"
C11_FailedSendAbandoned ==
    /\ [](\A r \in 1..Len(reqs) :
             Failed(r) =>
                 /\ SentBy(source, r) = {}
                 /\ SentBy(target, r) = {}
                 /\ ~ENABLED HandlerStep(r))
    /\ [][\A r \in 1..Len(reqs) :
            /\ Failed(r) => reqs'[r] = reqs[r]
            /\ ~Failed(r) /\ Failed(r)' =>
                   /\ \A q \in 1..Len(reqs) : q # r => reqs'[q] = reqs[q]
                   /\ Len(reqs') = Len(reqs)
                   /\ <<mainpc, entity, source, target>>' =
                          <<mainpc, entity, source, target>>]_vars

\* The send of one invocation failed although the target was resolved, and
\* a command that came in afterwards was answered.
C11_Witness ==
    \E r, q \in 1..Len(reqs) :
        /\ r < q
        /\ reqs[r].pc = "error"
        /\ reqs[q].pc = "resolved"
        /\ SentBy(target, q) # {}

\* C12: when the only message threaded to an invocation's dispatch is an
\* answer, and it is in the target group when the wait ends, the fetch
\* that follows finds it and hands its text on to be relayed, however many
\* messages threaded to nothing of this invocation were posted after it.
C12_TimelyReplyDelivered ==
    [][\A r \in 1..Len(reqs) :
          reqs[r].pc = "fetch" /\ reqs'[r].pc # "fetch" =>
              \A j \in RepliesTo(reqs[r].sent_id) :
                  RepliesTo(reqs[r].sent_id) = {j} /\ is_final_reply(target[j].text)
                      => /\ reqs'[r].pc = "reply"
                         /\ reqs'[r].reply = Some(target[j].text)]_vars

\* C13: a message threaded to an invocation's dispatch whose text is empty
\* once trimmed is passed over: no such text is ever relayed to the origin,
\* and when the fetched messages hold another message threaded to the
\* dispatch whose text is not empty, the invocation is resolved with the
\* text of such a message.
C13_EmptyReplyIgnored ==
    [][\A r \in 1..Len(reqs) :
          /\ \A i \in SentBy(source, r)' : Strip(source'[i].text) # <<>>
          /\ reqs[r].pc = "fetch" /\ reqs'[r].pc # "fetch" =>
                 LET fetched == GetMessagesOf(target, HistoryLimit)
                     answers == { i \in 1..Len(fetched) :
                                    /\ fetched[i].reply_to = reqs[r].sent_id
                                    /\ Strip(fetched[i].text) # <<>> }
                 IN  answers # {} =>
                         /\ reqs'[r].pc = "reply"
                         /\ \E i \in answers :
                                reqs'[r].reply = Some(fetched[i].text)]_vars

\* C14: an invocation goes through its steps in one order: the command is
\* sent to the target group, the sleep ends, the history is searched, the
\* reply is sent to the source group.  Each step happens at its place only,
\* and as long as the sleep has not ended nothing has been looked up and
\* nothing has been sent to the origin, although an answer may be there.
StepOrder ==
    { <<"send", "sleep">>, <<"send", "error">>, <<"sleep", "fetch">>,
      <<"fetch", "reply">>, <<"fetch", "timedout">>, <<"reply", "resolved">> }
C14_StepsInOrder ==
    [][/\ \A r \in 1..Len(reqs) :
            /\ reqs'[r].pc # reqs[r].pc => <<reqs[r].pc, reqs'[r].pc>> \in StepOrder
            /\ SentBy(target, r)' # SentBy(target, r) =>
                   reqs[r].pc = "send" /\ reqs'[r].pc = "sleep"
            /\ reqs'[r].reply # reqs[r].reply =>
                   reqs[r].pc = "fetch" /\ reqs'[r].pc \in {"reply", "timedout"}
            /\ SentBy(source, r)' # SentBy(source, r) =>
                   reqs[r].pc = "reply" /\ reqs'[r].pc = "resolved"
       /\ \A r \in 1..Len(reqs') :
            reqs'[r].pc \in {"send", "sleep"} =>
                /\ SentBy(source, r)' = {}
                /\ reqs'[r].reply = None]_vars

\* The command has been sent and its answer is already in the target
\* group while the handler still sleeps: nothing has gone to the origin.
C14_Witness ==
    \E r \in 1..Len(reqs) :
        /\ reqs[r].pc = "sleep"
        /\ SentBy(target, r) # {}
        /\ \E j \in RepliesTo(reqs[r].sent_id) : target[j].text = FinalText
        /\ SentBy(source, r) = {}

\* C15: an invocation leaves line 68, the send to the target group, only
\* when main() has stored the resolved target in TARGET_GROUP_ENTITY.
C15_EntityResolvedBeforeSend ==
    [][\A r \in 1..Len(reqs) :
          reqs[r].pc = "send" /\ reqs'[r].pc # "send" => entity # "None"]_vars

====
